---------------------------- MODULE Spec2Model ----------------------------
(***************************************************************************)
(* Model of src/index.js (Bybit spread monitor): the streaming-connection  *)
(* manager (shard planning, staggered startup, batched subscription,       *)
(* reconnect on close, SIGINT/SIGTERM), the message handler, the           *)
(* per-instrument signal state machine (price cache, spread, entry/exit    *)
(* with cooldown) and the notification deliveries it starts.               *)
(*                                                                         *)
(* Prices are integers (price ticks).  A parsed float that is NaN is the   *)
(* value NaN below; every comparison on a possibly-NaN value is guarded by *)
(* isNaN, which gives the IEEE result (a comparison with NaN is false).    *)
(* A spread is the exact rational <<num, den>>, den > 0, in percent;       *)
(* floating-point rounding of the division is not modelled.                *)
(* Timer delays (batch delay, stagger, reconnect delay, open timeout) are  *)
(* pending events that fire in any order.                                  *)
(***************************************************************************)
EXTENDS Integers, Sequences, FiniteSets, TLC

VARIABLES
    CONFIG,           \* CONFIG object (the numeric fields the code reads)
    symbols,          \* state.symbols
    activeSignals,    \* state.activeSignals : Map symbol -> {direction, entryTime, entrySpread}
    lastSignalTime,   \* state.lastSignalTime : Map symbol -> timestamp
    lastIndexPrice,   \* state.lastIndexPrice : Map symbol -> indexPrice
    wsConnections,    \* state.wsConnections : array of WebSocket (0 = hole/undefined)
    reconnectTimers,  \* state.reconnectTimers : array of timers
    wsObjs,           \* every WebSocket object created so far, with its closure variables
    initPc,           \* position of main()/initializeWebSockets()
    initI,            \* loop variable i of initializeWebSockets
    procState,        \* "running", "exit0" (process.exit(0)) or "exit1" (process.exit(1))
    sigintCount,      \* number of SIGINT handler runs
    tgFinal,          \* the tg.sendMessage promise of the SIGINT handler
    now,              \* the clock read by Date.now()
    lastTick,         \* the data object of the processTickerData run of the last step
    emitted,          \* the sendTelegram calls made by the last step
    tgPending,        \* the tg.sendMessage promises of sendTelegram not settled yet
    lastFrame,        \* the message of the handleWebSocketMessage run of the last step
    nEntry,           \* per symbol, number of Entry notifications sent so far
    nExit,            \* per symbol, number of Exit notifications sent so far
    lastEntryAt       \* per symbol, entryTime written by its latest Entry (-1: none yet)

connVars   == <<wsConnections, reconnectTimers, wsObjs, initPc, initI, procState,
                sigintCount, tgFinal>>
signalVars == <<activeSignals, lastSignalTime, lastIndexPrice, now, lastTick, emitted,
                nEntry, nExit, lastEntryAt, lastFrame>>
vars       == <<CONFIG, symbols, connVars, signalVars, tgPending>>

----------------------------------------------------------------------------
(* Bounds of the model *)

MaxUniverse == 5      \* largest universe size drawn by InitPlan
MaxConnCfg  == 3      \* largest MAX_WS_CONNECTIONS drawn by InitPlan
MaxBatchCfg == 3      \* largest BATCH_SIZE drawn by InitPlan
MaxWs       == 3      \* WebSocket objects created in one behaviour of Spec
MaxSigint   == 1      \* SIGINT deliveries in one behaviour
MaxTime     == 4      \* largest clock value
MaxEvents   == 2      \* Entry notifications per symbol in one behaviour

----------------------------------------------------------------------------
(* Generic helpers *)

Min(a, b) == IF a <= b THEN a ELSE b

\* Math.ceil(a / b) for a >= 0, b >= 1
Ceil(a, b) == (a + b - 1) \div b

\* Array.prototype.slice(start, end) on a sequence, 0-based, end exclusive
slice(arr, start, end) == SubSeq(arr, start + 1, Min(end, Len(arr)))

RECURSIVE Concat(_)
Concat(ss) == IF ss = <<>> THEN <<>> ELSE Head(ss) \o Concat(Tail(ss))

\* Map.set / Map.delete / Map.has on a function whose domain is the key set
MapSet(m, k, v) == [x \in DOMAIN m \cup {k} |-> IF x = k THEN v ELSE m[x]]
MapDelete(m, k) == [x \in DOMAIN m \ {k} |-> m[x]]
MapHas(m, k)    == k \in DOMAIN m
EmptyMap        == [x \in {} |-> 0]

----------------------------------------------------------------------------
(* SubscriptionPlanner: initializeWebSockets (lines 206-222) *)

symbolsPerConnection == Ceil(Len(symbols), CONFIG.MAX_WS_CONNECTIONS)

actualConnections ==
    Min(CONFIG.MAX_WS_CONNECTIONS, Ceil(Len(symbols), CONFIG.BATCH_SIZE))

\* slices that reach one instrument into the next shard
ShardOfOverlap(i) ==
    slice(symbols, i * symbolsPerConnection,
          Min((i + 1) * symbolsPerConnection + 1, Len(symbols)))

\* the slice handed to createWebSocketConnection in iteration i
ShardOf(i) ==
    slice(symbols, i * symbolsPerConnection,
          Min((i + 1) * symbolsPerConnection, Len(symbols)))

\* subscribeToSymbols (lines 145-148): the batches of one shard
\* a subscription that ends after its first batch
NumBatchesOne(syms) == IF Len(syms) = 0 THEN 0 ELSE 1

NumBatches(syms) == Ceil(Len(syms), CONFIG.BATCH_SIZE)
\* batches that overlap their successor by one instrument
BatchOfOverlap(syms, k) ==
    slice(syms, k * CONFIG.BATCH_SIZE, (k + 1) * CONFIG.BATCH_SIZE + 1)

BatchOf(syms, k) == slice(syms, k * CONFIG.BATCH_SIZE, (k + 1) * CONFIG.BATCH_SIZE)


----------------------------------------------------------------------------
(* ConnectionSupervisor: createWebSocketConnection (lines 162-204) *)

Running == procState = "running"

\* new WebSocket(...) with the closure variables of one createWebSocketConnection
\* call; origin records who awaits the returned promise: initializeWebSockets
\* (line 219) or the reconnect timer callback (line 191)
NewWs(syms, idx, origin) ==
    [ connectionIndex |-> idx,
      symbols         |-> syms,
      origin          |-> origin,
      readyState      |-> "CONNECTING",
      isResolved      |-> FALSE,
      promise         |-> "pending",
      subPc           |-> "none",     \* subscribeToSymbols: none, waiting, done, threw
      sent            |-> <<>>,       \* the batches given to ws.send, in order
      timeoutPending  |-> TRUE ]      \* the 30 s timer of lines 200-202

\* arr[idx] = w on a JavaScript array (0-based idx; holes are 0)
ArraySet(arr, idx, w) ==
    [p \in 1..(IF idx + 1 > Len(arr) THEN idx + 1 ELSE Len(arr)) |->
        IF p = idx + 1 THEN w ELSE IF p <= Len(arr) THEN arr[p] ELSE 0]

\* sendTelegram (lines 51-54): tg.sendMessage is started and not awaited; the
\* promise stays pending until the delivery succeeds or fails
sendTelegram(q, msg) == Append(q, msg)

\* the text of lines 261-267, sent when initializeWebSockets has returned
StartedMsg == [type |-> "STARTED", symbol |-> ""]

\* resolve(ws) at line 173 and the continuation of the await on the promise:
\* line 220 (+ loop exit / stagger wait) for the initial connection, line 192
\* for a reconnect.  objs is wsObjs with the caller's own updates applied.
ResolveEffects(w, objs) ==
    IF objs[w].isResolved
    THEN /\ wsObjs' = objs
         /\ UNCHANGED <<wsConnections, initPc, initI, procState, tgPending>>
    ELSE /\ wsObjs' = [objs EXCEPT ![w].isResolved = TRUE, ![w].promise = "resolved"]
         /\ procState' = procState
         /\ IF objs[w].origin = "init"
            THEN /\ wsConnections' = Append(wsConnections, w)
                 /\ IF initI < actualConnections - 1
                    THEN /\ initPc' = "stagger" /\ initI' = initI
                         /\ UNCHANGED tgPending
                    ELSE /\ initPc' = "done" /\ initI' = initI + 1
                         /\ tgPending' = sendTelegram(tgPending, StartedMsg)
            ELSE /\ wsConnections' = ArraySet(wsConnections, objs[w].connectionIndex, w)
                 /\ UNCHANGED <<initPc, initI, tgPending>>

\* reject(err) at lines 176 / 201 and what the rejection reaches: for the
\* initial connection initializeWebSockets and main reject and main().catch
\* calls process.exit(1) (lines 288-291); for a reconnect the catch at line 193
RejectEffects(w, objs) ==
    IF objs[w].isResolved
    THEN /\ wsObjs' = objs
         /\ UNCHANGED <<initPc, procState>>
    ELSE /\ wsObjs' = [objs EXCEPT ![w].isResolved = TRUE, ![w].promise = "rejected"]
         /\ IF objs[w].origin = "init"
            THEN initPc' = "failed" /\ procState' = "exit1"
            ELSE UNCHANGED <<initPc, procState>>

\* fetchActiveSymbols resolved (line 256): initializeWebSockets up to its first await
MainStart ==
    /\ Running /\ initPc = "start"
    /\ IF 0 < actualConnections
       THEN /\ wsObjs' = Append(wsObjs, NewWs(ShardOf(0), 0, "init"))
            /\ initPc' = "await"
            /\ UNCHANGED tgPending
       ELSE /\ initPc' = "done"
            /\ tgPending' = sendTelegram(tgPending, StartedMsg)
            /\ UNCHANGED wsObjs
    /\ UNCHANGED <<CONFIG, symbols, wsConnections, reconnectTimers, initI, procState,
                   sigintCount, tgFinal, signalVars>>

\* the 1 s stagger of line 221 elapsed: next loop iteration
StaggerElapsed ==
    /\ Running /\ initPc = "stagger"
    /\ initI' = initI + 1
    /\ wsObjs' = Append(wsObjs, NewWs(ShardOf(initI + 1), initI + 1, "init"))
    /\ initPc' = "await"
    /\ UNCHANGED <<CONFIG, symbols, wsConnections, reconnectTimers, procState,
                   sigintCount, tgFinal, signalVars, tgPending>>

\* ws 'open' (lines 169-178): subscribeToSymbols runs up to its first await
WsOpen(w) ==
    /\ Running /\ wsObjs[w].readyState = "CONNECTING"
    /\ LET syms == wsObjs[w].symbols
           nb   == NumBatches(syms)
           o1   == [wsObjs EXCEPT ![w].readyState = "OPEN"]
       IN  IF nb = 0
           THEN ResolveEffects(w, [o1 EXCEPT ![w].subPc = "done"])
           ELSE IF nb = 1
           THEN ResolveEffects(w, [o1 EXCEPT ![w].subPc = "done",
                                             ![w].sent = <<BatchOf(syms, 0)>>])
           ELSE /\ wsObjs' = [o1 EXCEPT ![w].subPc = "waiting",
                                        ![w].sent = <<BatchOf(syms, 0)>>]
                /\ UNCHANGED <<wsConnections, initPc, initI, procState, tgPending>>
    /\ UNCHANGED <<CONFIG, symbols, reconnectTimers, sigintCount, tgFinal, signalVars>>

\* BATCH_DELAY_MS elapsed (line 157): the next ws.send of subscribeToSymbols.
\* ws.send on a socket that is no longer OPEN either throws (the catch of
\* line 174 rejects) or drops the frame, depending on the ws library.
SubscribeNext(w, throws) ==
    /\ Running /\ wsObjs[w].subPc = "waiting"
    /\ LET syms == wsObjs[w].symbols
           k    == Len(wsObjs[w].sent)
       IN  IF wsObjs[w].readyState # "OPEN" /\ throws
           THEN /\ RejectEffects(w, [wsObjs EXCEPT ![w].subPc = "threw"])
                /\ UNCHANGED <<wsConnections, initI, tgPending>>
           ELSE LET o1 == [wsObjs EXCEPT ![w].sent = Append(@, BatchOf(syms, k))]
                IN  IF k + 1 < NumBatches(syms)
                    THEN /\ wsObjs' = o1
                         /\ UNCHANGED <<wsConnections, initPc, initI, procState, tgPending>>
                    ELSE ResolveEffects(w, [o1 EXCEPT ![w].subPc = "done"])
    /\ UNCHANGED <<CONFIG, symbols, reconnectTimers, sigintCount, tgFinal, signalVars>>

\* ws 'error' / 'close' (lines 183-198): a failed handshake, a dropped or a
\* closed connection; the close handler schedules the reconnect timer
WsClose(w) ==
    /\ Running /\ wsObjs[w].readyState \in {"CONNECTING", "OPEN", "CLOSING"}
    /\ wsObjs' = [wsObjs EXCEPT ![w].readyState = "CLOSED"]
    /\ reconnectTimers' = Append(reconnectTimers,
           [ connectionIndex |-> wsObjs[w].connectionIndex,
             symbols         |-> wsObjs[w].symbols,
             status          |-> "pending" ])
    /\ UNCHANGED <<CONFIG, symbols, wsConnections, initPc, initI, procState,
                   sigintCount, tgFinal, signalVars, tgPending>>

\* RECONNECT_DELAY_MS elapsed (lines 189-196): the timer callback calls
\* createWebSocketConnection for the same shard
ReconnectFire(t) ==
    /\ Running /\ reconnectTimers[t].status = "pending"
    /\ Len(wsObjs) < MaxWs
    /\ reconnectTimers' = [reconnectTimers EXCEPT ![t].status = "fired"]
    /\ wsObjs' = Append(wsObjs, NewWs(reconnectTimers[t].symbols,
                                      reconnectTimers[t].connectionIndex, "reconnect"))
    /\ UNCHANGED <<CONFIG, symbols, wsConnections, initPc, initI, procState,
                   sigintCount, tgFinal, signalVars, tgPending>>

\* the 30 s timer of lines 200-202
OpenTimeout(w) ==
    /\ Running /\ wsObjs[w].timeoutPending
    /\ RejectEffects(w, [wsObjs EXCEPT ![w].timeoutPending = FALSE])
    /\ UNCHANGED <<CONFIG, symbols, wsConnections, reconnectTimers, initI,
                   sigintCount, tgFinal, signalVars, tgPending>>

----------------------------------------------------------------------------
(* Process signals (lines 271-286) *)

\* the SIGINT handler: close the OPEN sockets of the pool, clear the timers
\* pushed so far, start the final notification
Sigint ==
    /\ Running /\ sigintCount < MaxSigint
    /\ sigintCount' = sigintCount + 1
    /\ wsObjs' = [w \in DOMAIN wsObjs |->
                    IF /\ \E p \in DOMAIN wsConnections : wsConnections[p] = w
                       /\ wsObjs[w].readyState = "OPEN"
                    THEN [wsObjs[w] EXCEPT !.readyState = "CLOSING"]
                    ELSE wsObjs[w]]
    /\ reconnectTimers' = [t \in DOMAIN reconnectTimers |->
                    IF reconnectTimers[t].status = "pending"
                    THEN [reconnectTimers[t] EXCEPT !.status = "cleared"]
                    ELSE reconnectTimers[t]]
    /\ tgFinal' = "pending"
    /\ UNCHANGED <<CONFIG, symbols, wsConnections, initPc, initI, procState, signalVars,
                   tgPending>>

\* the final tg.sendMessage settles (fulfilled or rejected): .finally exits
TgFinalSettle ==
    /\ Running /\ tgFinal = "pending"
    /\ tgFinal' = "settled"
    /\ procState' = "exit0"
    /\ UNCHANGED <<CONFIG, symbols, wsConnections, reconnectTimers, wsObjs, initPc,
                   initI, sigintCount, signalVars, tgPending>>

\* the SIGTERM handler (line 286)
Sigterm ==
    /\ Running
    /\ procState' = "exit0"
    /\ UNCHANGED <<CONFIG, symbols, wsConnections, reconnectTimers, wsObjs, initPc,
                   initI, sigintCount, tgFinal, signalVars, tgPending>>

----------------------------------------------------------------------------
(* Tick fields, parseFloat, SpreadEngine (lines 57-60, 90-104) *)

\* the value NaN of a parsed field
NaN == -999999
isNaN(x) == x = NaN

\* a raw field of the data object: absent, a non-numeric string, or a numeral
Missing == [kind |-> "missing", v |-> 0]
Text    == [kind |-> "text", v |-> 0]
Num(n)  == [kind |-> "num", v |-> n]

parseFloat(f) == IF f.kind = "num" THEN f.v ELSE NaN

\* JavaScript !x for a number: true for 0 and NaN
Falsy(x) == isNaN(x) \/ x = 0

Abs(n) == IF n < 0 THEN -n ELSE n

RECURSIVE GCD(_, _)
GCD(a, b) == IF b = 0 THEN a ELSE GCD(b, a % b)

\* the rational n/d (d # 0) in lowest terms with a positive denominator
Rat(n, d) ==
    LET g == GCD(Abs(n), Abs(d))
        sg == IF d < 0 THEN -1 ELSE 1
    IN  <<(sg * n) \div g, (sg * d) \div g>>

RatAbs(r)    == <<Abs(r[1]), r[2]>>
RatGE(a, b)  == a[1] * b[2] >= b[1] * a[2]
RatLE(a, b)  == a[1] * b[2] <= b[1] * a[2]
RatZero      == <<0, 1>>

calcSpread(lastPrice, indexPrice) ==
    IF Falsy(lastPrice) \/ Falsy(indexPrice) \/ indexPrice = 0
    THEN RatZero
    ELSE Rat((lastPrice - indexPrice) * 100, indexPrice)

\* a direction rule that gives Long on equality
directionOfLE(lastPrice, indexPrice) == IF lastPrice <= indexPrice THEN "LONG" ELSE "SHORT"

\* line 104
directionOf(lastPrice, indexPrice) == IF lastPrice < indexPrice THEN "LONG" ELSE "SHORT"

----------------------------------------------------------------------------
(* processTickerData (lines 88-130) *)

NoSymbol == ""        \* data.symbol absent or empty: !symbol is true

\* lines 93-98: the reference price after the cache update / fallback
\* a validity test that accepts a reference price of 0
validIndexNonNeg(data) ==
    LET ip == parseFloat(data.indexPrice) IN ~isNaN(ip) /\ ip >= 0

validIndex(data) ==
    LET ip == parseFloat(data.indexPrice) IN ~isNaN(ip) /\ ip > 0

cacheAfter(data) ==
    IF validIndex(data)
    THEN MapSet(lastIndexPrice, data.symbol, parseFloat(data.indexPrice))
    ELSE lastIndexPrice

\* a resolution without the cache fallback of line 97
resolvedIndexNoFallback(data) ==
    IF validIndex(data) THEN parseFloat(data.indexPrice) ELSE NaN

resolvedIndex(data) ==
    IF validIndex(data) THEN parseFloat(data.indexPrice)
    ELSE IF MapHas(lastIndexPrice, data.symbol) THEN lastIndexPrice[data.symbol]
    ELSE NaN

\* line 100
rejected(data) ==
    data.symbol = NoSymbol \/ isNaN(parseFloat(data.lastPrice)) \/ isNaN(resolvedIndex(data))

\* lines 106-108, with Date.now() = now
hasSignal(symbol) == MapHas(activeSignals, symbol)
lastSent(symbol)  == IF MapHas(lastSignalTime, symbol) THEN lastSignalTime[symbol] ELSE 0
\* a cooldown test that always passes
cooldownOkAlways(symbol) == TRUE

cooldownOk(symbol) == (now - lastSent(symbol)) >= CONFIG.SIGNAL_COOLDOWN_MS

\* entryCond without the !hasSignal conjunct
entryCondReenter(data) ==
    /\ ~rejected(data)
    /\ RatGE(RatAbs(calcSpread(parseFloat(data.lastPrice), resolvedIndex(data))),
             CONFIG.SPREAD_ENTRY_THRESHOLD)
    /\ cooldownOk(data.symbol)

\* the condition of line 111
entryCond(data) ==
    /\ ~rejected(data)
    /\ ~hasSignal(data.symbol)
    /\ RatGE(RatAbs(calcSpread(parseFloat(data.lastPrice), resolvedIndex(data))),
             CONFIG.SPREAD_ENTRY_THRESHOLD)
    /\ cooldownOk(data.symbol)

\* exitCond gated by the cooldown as the entry is
exitCondCooldownGated(data) ==
    /\ ~rejected(data)
    /\ hasSignal(data.symbol)
    /\ RatLE(RatAbs(calcSpread(parseFloat(data.lastPrice), resolvedIndex(data))),
             CONFIG.SPREAD_EXIT_THRESHOLD)
    /\ cooldownOk(data.symbol)

\* the condition of line 122 (reached only when line 111 did not return)
exitCond(data) ==
    /\ ~rejected(data)
    /\ ~entryCond(data)
    /\ hasSignal(data.symbol)
    /\ RatLE(RatAbs(calcSpread(parseFloat(data.lastPrice), resolvedIndex(data))),
             CONFIG.SPREAD_EXIT_THRESHOLD)

\* an exit that forgets the delete of line 126
signalsAfterExitKept(symbol) == activeSignals

\* an exit that clears the records of all instruments
signalsAfterExitAll(symbol) == EmptyMap

\* line 126
signalsAfterExit(symbol) == MapDelete(activeSignals, symbol)

\* One run of processTickerData.  d1, d2: how far the clock advances between
\* the Date.now() reads of lines 108, 114 and 115.
processTickerData(data, d1, d2) ==
    LET symbol     == data.symbol
        lastPrice  == parseFloat(data.lastPrice)
        indexPrice == resolvedIndex(data)
        spread     == calcSpread(lastPrice, indexPrice)
        direction  == directionOf(lastPrice, indexPrice)
    IN
    /\ lastTick' = data
    /\ lastIndexPrice' = cacheAfter(data)
    /\ IF entryCond(data)
       THEN /\ nEntry[symbol] < MaxEvents
            /\ now + d1 + d2 <= MaxTime
            /\ activeSignals' = MapSet(activeSignals, symbol,
                   [direction |-> direction, entryTime |-> now + d1, entrySpread |-> spread])
            /\ lastSignalTime' = MapSet(lastSignalTime, symbol, now + d1 + d2)
            /\ now' = now + d1 + d2
            /\ emitted' = << [type |-> "ENTRY", symbol |-> symbol, direction |-> direction,
                              lastPrice |-> lastPrice, indexPrice |-> indexPrice,
                              spread |-> spread] >>
            /\ tgPending' = sendTelegram(tgPending, [type |-> "ENTRY", symbol |-> symbol])
            /\ nEntry' = [nEntry EXCEPT ![symbol] = @ + 1]
            /\ lastEntryAt' = [lastEntryAt EXCEPT ![symbol] = now + d1]
            /\ UNCHANGED nExit
       ELSE /\ IF exitCond(data)
               THEN LET sig == activeSignals[symbol] IN
                    /\ activeSignals' = signalsAfterExit(symbol)
                    /\ emitted' = << [type |-> "EXIT", symbol |-> symbol,
                                      direction |-> sig.direction,
                                      lastPrice |-> lastPrice, indexPrice |-> indexPrice,
                                      spread |-> spread, entrySpread |-> sig.entrySpread] >>
                    /\ tgPending' = sendTelegram(tgPending,
                                                  [type |-> "EXIT", symbol |-> symbol])
                    /\ nExit' = [nExit EXCEPT ![symbol] = @ + 1]
               ELSE /\ emitted' = <<>>
                    /\ UNCHANGED <<activeSignals, nExit, tgPending>>
            /\ UNCHANGED <<lastSignalTime, now, nEntry, lastEntryAt>>

----------------------------------------------------------------------------
(* Inputs and configurations drawn by the specifications *)

Symbols == {"BTCUSDT", "ETHUSDT"}

\* lastTick when the last step was no processTickerData run
NoTick == [symbol |-> "-", lastPrice |-> Missing, indexPrice |-> Missing]

LastFields  == {Missing, Text, Num(0), Num(-1000), Num(1000), Num(1006), Num(1008)}
IndexFields == {Missing, Text, Num(0), Num(-1000), Num(1000), Num(1010)}

\* the ticker payloads the exchange sends for the subscribed instruments
TickInputs ==
    [symbol : {symbols[k] : k \in DOMAIN symbols}, lastPrice : LastFields,
     indexPrice : IndexFields]

\* An inbound frame as handleWebSocketMessage sees it: json is what JSON.parse
\* does with the text ("invalid": it throws, "null": a value without
\* properties, "object"), topic the kind of its topic property, hasData
\* whether data.data is truthy, data the payload.
TickerFrame(data) == [json |-> "object", topic |-> "tickers", hasData |-> TRUE, data |-> data]

\* lastFrame when the last step was no handleWebSocketMessage run
NoFrame == [json |-> "-", topic |-> "-", hasData |-> FALSE, data |-> NoTick]

\* a payload that enters when processed on an Idle instrument (spread -0.99 %)
ProbeTick == [symbol |-> symbols[1], lastPrice |-> Num(1000), indexPrice |-> Num(1010)]

\* the frames that are no ticker update: unparseable text, the JSON text null,
\* objects without topic (subscription acknowledgement, pong), with a topic
\* that is no string, with another topic, and a ticker topic without data
OtherFrames ==
    { [json |-> "invalid", topic |-> "none",      hasData |-> FALSE, data |-> NoTick],
      [json |-> "null",    topic |-> "none",      hasData |-> FALSE, data |-> NoTick],
      [json |-> "object",  topic |-> "none",      hasData |-> FALSE, data |-> NoTick],
      [json |-> "object",  topic |-> "none",      hasData |-> TRUE,  data |-> ProbeTick],
      [json |-> "object",  topic |-> "nonstring", hasData |-> TRUE,  data |-> ProbeTick],
      [json |-> "object",  topic |-> "other",     hasData |-> TRUE,  data |-> ProbeTick],
      [json |-> "object",  topic |-> "tickers",   hasData |-> FALSE, data |-> NoTick] }

\* how far the clock may advance between two Date.now() reads of one handler run
DriftSteps == {0, 1}

\* parseFloat('0.7') etc. as rationals; the second pair has exit >= entry
Thresholds == { [entry |-> <<7, 10>>, exit |-> <<5, 10>>],
                [entry |-> <<5, 10>>, exit |-> <<7, 10>>] }

Config(entry, exit, cooldown, maxConn, batch) ==
    [ SPREAD_ENTRY_THRESHOLD |-> entry,
      SPREAD_EXIT_THRESHOLD  |-> exit,
      SIGNAL_COOLDOWN_MS     |-> cooldown,
      MAX_WS_CONNECTIONS     |-> maxConn,
      BATCH_SIZE             |-> batch ]

Universe(u) == [k \in 1..u |-> k]

\* the pool after a startup with one shard: its connection open, subscribed
\* and stored, the open timeout fired without effect
PoolStreaming ==
    /\ wsConnections = <<1>>
    /\ reconnectTimers = <<>>
    /\ wsObjs = << [NewWs(symbols, 0, "init") EXCEPT
                       !.readyState = "OPEN", !.isResolved = TRUE, !.promise = "resolved",
                       !.subPc = "done", !.sent = <<symbols>>, !.timeoutPending = FALSE] >>
    /\ initI = 1
    /\ procState = "running"
    /\ sigintCount = 0
    /\ tgFinal = "none"

\* the pool after a startup with any number of shards: every connection
\* open, subscribed and stored in shard order
PoolStreamingShards ==
    /\ wsConnections = [i \in 1..actualConnections |-> i]
    /\ reconnectTimers = <<>>
    /\ wsObjs = [i \in 1..actualConnections |->
                   [NewWs(ShardOf(i - 1), i - 1, "init") EXCEPT
                       !.readyState = "OPEN", !.isResolved = TRUE, !.promise = "resolved",
                       !.subPc = "done",
                       !.sent = [k \in 1..NumBatches(ShardOf(i - 1)) |->
                                    BatchOf(ShardOf(i - 1), k - 1)],
                       !.timeoutPending = FALSE]]
    /\ initI = actualConnections
    /\ procState = "running"
    /\ sigintCount = 0
    /\ tgFinal = "none"

ConnIdle ==
    /\ wsConnections = <<>>
    /\ reconnectTimers = <<>>
    /\ wsObjs = <<>>
    /\ initI = 0
    /\ procState = "running"
    /\ sigintCount = 0
    /\ tgFinal = "none"

SignalIdle ==
    /\ activeSignals = EmptyMap
    /\ lastSignalTime = EmptyMap
    /\ lastIndexPrice = EmptyMap
    /\ now = 0
    /\ lastTick = NoTick
    /\ lastFrame = NoFrame
    /\ emitted = <<>>
    /\ tgPending = <<>>
    /\ nEntry = [s \in Symbols |-> 0]
    /\ nExit = [s \in Symbols |-> 0]
    /\ lastEntryAt = [s \in Symbols |-> -1]

----------------------------------------------------------------------------
(* handleWebSocketMessage (lines 133-142) and the notification deliveries  *)

\* a topic test that accepts every string topic
isTickerTopicAny(topic) == TRUE

\* data.topic.startsWith('tickers.') for a string topic
isTickerTopic(topic) == topic = "tickers"

\* the condition of line 136, reached when JSON.parse returned; reading .topic
\* of null and calling startsWith on a non-string throw into the catch
reachesProcess(message) ==
    /\ message.json = "object"
    /\ message.topic \notin {"none", "nonstring"}
    /\ isTickerTopic(message.topic)
    /\ message.hasData

handleWebSocketMessage(message, d1, d2) ==
    /\ lastFrame' = message
    /\ IF reachesProcess(message)
       THEN processTickerData(message.data, d1, d2)
       ELSE /\ lastTick' = NoTick
            /\ emitted' = <<>>
            /\ UNCHANGED <<activeSignals, lastSignalTime, lastIndexPrice, now, nEntry, nExit,
                           lastEntryAt, tgPending>>

\* some connection of the process is open and delivers 'message' events (line 180)
Streaming == \E w \in DOMAIN wsObjs : wsObjs[w].readyState = "OPEN"

\* a delivery failure that undoes the Entry it reported
signalsAfterDeliveryRolledBack(msg, ok) ==
    IF ~ok /\ msg.type = "ENTRY" THEN MapDelete(activeSignals, msg.symbol) ELSE activeSignals

\* the signal maps after a delivery settled: the .catch of line 53 only logs
signalsAfterDelivery(msg, ok) == activeSignals

\* the k-th pending tg.sendMessage promise fulfils (ok) or rejects
TgSettle(k, ok) ==
    /\ Running
    /\ k \in DOMAIN tgPending
    /\ tgPending' = SubSeq(tgPending, 1, k - 1) \o SubSeq(tgPending, k + 1, Len(tgPending))
    /\ activeSignals' = signalsAfterDelivery(tgPending[k], ok)
    /\ lastTick' = NoTick
    /\ lastFrame' = NoFrame
    /\ emitted' = <<>>
    /\ UNCHANGED <<CONFIG, symbols, connVars, lastSignalTime, lastIndexPrice, now,
                   nEntry, nExit, lastEntryAt>>

----------------------------------------------------------------------------
(* Spec: the connection manager and the process signals *)

Init ==
    /\ CONFIG = Config(<<7, 10>>, <<5, 10>>, 2, 2, 1)
    /\ symbols = Universe(3)
    /\ initPc = "start"
    /\ ConnIdle
    /\ SignalIdle

Next ==
    \/ MainStart
    \/ StaggerElapsed
    \/ \E w \in DOMAIN wsObjs : WsOpen(w)
    \/ \E w \in DOMAIN wsObjs : \E throws \in BOOLEAN : SubscribeNext(w, throws)
    \/ \E w \in DOMAIN wsObjs : WsClose(w)
    \/ \E t \in DOMAIN reconnectTimers : ReconnectFire(t)
    \/ \E w \in DOMAIN wsObjs : OpenTimeout(w)
    \/ Sigint
    \/ TgFinalSettle
    \/ Sigterm
    \/ \E k \in DOMAIN tgPending : \E ok \in BOOLEAN : TgSettle(k, ok)

Spec == Init /\ [][Next]_vars

\* The steps the event loop takes by itself: the continuation of main and
\* every armed timer (stagger, batch delay, reconnect delay, open timeout).
\* Network events (open, a connection dropping), the signals and the
\* settling of the final notification depend on the outside and are not forced.
TimerSteps ==
    \/ MainStart
    \/ StaggerElapsed
    \/ \E w \in DOMAIN wsObjs : \E throws \in BOOLEAN : SubscribeNext(w, throws)
    \/ \E t \in DOMAIN reconnectTimers : ReconnectFire(t)
    \/ \E w \in DOMAIN wsObjs : OpenTimeout(w)

\* ws.close() (line 276) completes: the closing handshake, or the close
\* timer of the ws library, ends in the 'close' event
ClosingCompletes ==
    \E w \in DOMAIN wsObjs : wsObjs[w].readyState = "CLOSING" /\ WsClose(w)

SpecLive == Spec /\ WF_vars(TimerSteps) /\ WF_vars(ClosingCompletes)

----------------------------------------------------------------------------
(* SpecPlan: startup over every universe size and configuration, with every *)
(* connection opening and no closure, timeout or signal                     *)

InitPlan ==
    /\ \E u \in 0..MaxUniverse, m \in 1..MaxConnCfg, b \in 1..MaxBatchCfg :
          /\ CONFIG = Config(<<7, 10>>, <<5, 10>>, 2, m, b)
          /\ symbols = Universe(u)
    /\ initPc = "start"
    /\ ConnIdle
    /\ SignalIdle

NextPlan ==
    \/ MainStart
    \/ StaggerElapsed
    \/ \E w \in DOMAIN wsObjs : WsOpen(w)
    \/ \E w \in DOMAIN wsObjs : SubscribeNext(w, FALSE)

SpecPlan == InitPlan /\ [][NextPlan]_vars

----------------------------------------------------------------------------
(* SpecSignal: the signal state machine fed with ticks, the pool streaming  *)

\* ws 'message' with a ticker payload: handleWebSocketMessage calls processTickerData
OnTicker(data) ==
    /\ Running /\ Streaming
    /\ IF entryCond(data)
       THEN \E d1 \in DriftSteps, d2 \in DriftSteps :
               handleWebSocketMessage(TickerFrame(data), d1, d2)
       ELSE handleWebSocketMessage(TickerFrame(data), 0, 0)
    /\ UNCHANGED <<CONFIG, symbols, connVars>>

\* ws 'message' with any other frame
OnOtherFrame(message) ==
    /\ Running /\ Streaming
    /\ handleWebSocketMessage(message, 0, 0)
    /\ UNCHANGED <<CONFIG, symbols, connVars>>

\* time passes between two handler runs
ClockTick ==
    /\ now < MaxTime
    /\ now' = now + 1
    /\ lastTick' = NoTick
    /\ lastFrame' = NoFrame
    /\ emitted' = <<>>
    /\ UNCHANGED <<CONFIG, symbols, connVars, activeSignals, lastSignalTime,
                   lastIndexPrice, nEntry, nExit, lastEntryAt, tgPending>>

InitSignal ==
    /\ \E th \in Thresholds :
          CONFIG = Config(th.entry, th.exit, 2, 2, 1)
    /\ symbols = <<"BTCUSDT">>
    /\ initPc = "done"
    /\ PoolStreaming
    /\ SignalIdle

NextSignal ==
    \/ \E data \in TickInputs : OnTicker(data)
    \/ \E message \in OtherFrames : OnOtherFrame(message)
    \/ \E k \in DOMAIN tgPending : \E ok \in BOOLEAN : TgSettle(k, ok)
    \/ ClockTick

SpecSignal == InitSignal /\ [][NextSignal]_vars

----------------------------------------------------------------------------
(* SpecFrame: two instruments on two connections, their ticks interleaved   *)
(* (the deliveries stay pending; their settling is part of SpecSignal)      *)

\* against the reference 1010: 1000 enters Long (-0.99 %), 1008 exits (-0.198 %)
FrameLast  == {Num(1000), Num(1008)}
FrameIndex == {Missing, Num(1010)}

FrameTicks ==
    [symbol : {symbols[k] : k \in DOMAIN symbols}, lastPrice : FrameLast,
     indexPrice : FrameIndex]

\* the 'message' handler of connection w (line 180) runs with a ticker payload;
\* the handler does not receive the connection
OnTickerVia(w, data) ==
    /\ wsObjs[w].readyState = "OPEN"
    /\ OnTicker(data)

InitFrame ==
    /\ CONFIG = Config(<<7, 10>>, <<5, 10>>, 2, 2, 1)
    /\ symbols = <<"BTCUSDT", "ETHUSDT">>
    /\ initPc = "done"
    /\ PoolStreamingShards
    /\ SignalIdle

NextFrame ==
    \/ \E w \in DOMAIN wsObjs : \E data \in FrameTicks : OnTickerVia(w, data)
    \/ ClockTick

SpecFrame == InitFrame /\ [][NextFrame]_vars

----------------------------------------------------------------------------
(* Vocabulary of the properties, stated on the tick and the maps, not on   *)
(* the operators of processTickerData.  In an action formula t is          *)
(* lastTick' and the maps are those before the step; in a state predicate  *)
(* t is lastTick and the cache is the one after the step, which resolves   *)
(* the same reference price.                                               *)

IsTick(t)        == t # NoTick
TradedValid(t)   == t.lastPrice.kind = "num" /\ t.lastPrice.v > 0
RefGiven(t)      == t.indexPrice.kind = "num" /\ t.indexPrice.v > 0
RefNonPositive(t) == t.indexPrice.kind = "num" /\ t.indexPrice.v <= 0
RefResolvable(t) == RefGiven(t) \/ t.symbol \in DOMAIN lastIndexPrice
RefOf(t)         == IF RefGiven(t) THEN t.indexPrice.v ELSE lastIndexPrice[t.symbol]
ValidTick(t)     == IsTick(t) /\ TradedValid(t) /\ RefResolvable(t)
InvalidTick(t)   == IsTick(t) /\ (~TradedValid(t) \/ RefNonPositive(t) \/ ~RefResolvable(t))
SpreadPct(t)     == Rat((t.lastPrice.v - RefOf(t)) * 100, RefOf(t))
AbsSpreadPct(t)  == RatAbs(SpreadPct(t))
DirectionPct(t)  == IF t.lastPrice.v < RefOf(t) THEN "LONG" ELSE "SHORT"

IsActive(s)   == s \in DOMAIN activeSignals
EntryEmitted  == Len(emitted) = 1 /\ emitted[1].type = "ENTRY"
ExitEmitted   == Len(emitted) = 1 /\ emitted[1].type = "EXIT"

\* the shards initializeWebSockets has handed to createWebSocketConnection
IsInitWs(o)   == o.origin = "init"
HandedShards  == LET ws == SelectSeq(wsObjs, IsInitWs)
                 IN  [k \in DOMAIN ws |-> ws[k].symbols]

----------------------------------------------------------------------------
(* C1: once initializeWebSockets has run its loop to the end, the shards it *)
(* handed to createWebSocketConnection, concatenated in shard-index order,  *)
(* are exactly the universe (so every instrument is in exactly one shard).  *)
(* Violated: with ceil(U / BATCH_SIZE) < MAX_WS_CONNECTIONS the loop makes  *)
(* fewer shards than the per-shard size ceil(U / MAX_WS_CONNECTIONS) needs. *)
C1_ShardsPartitionUniverse ==
    initPc = "done" => Concat(HandedShards) = symbols

(* C2: a tick whose traded price is missing, non-numeric, zero or negative, *)
(* or whose reference price is non-positive or unresolvable, changes neither *)
(* the signal state nor the cooldown record and emits nothing.              *)
(* Violated: a traded price of 0 gives spread 0 and exits an Active signal, *)
(* a negative traded price gives a large spread and enters.                 *)
C2_InvalidTickNoTransition ==
    [][ InvalidTick(lastTick')
          => /\ activeSignals' = activeSignals
             /\ lastSignalTime' = lastSignalTime
             /\ emitted' = <<>> ]_vars

(* C3: on a tick with valid prices an Entry is emitted iff the instrument   *)
(* is Idle, |spread| >= entryThreshold and the time since its last Entry is *)
(* >= cooldownMs (an instrument without cooldown record satisfies this);    *)
(* the step makes it Active with the tick's direction and spread, enteredAt *)
(* and the cooldown record being clock readings of this step.               *)
(* Violated: without a cooldown record the code compares now - 0 with       *)
(* cooldownMs and refuses the Entry while now < cooldownMs (see C17).       *)
C3_EntryIff ==
    [][ ValidTick(lastTick')
          => LET t == lastTick'
                 s == t.symbol
             IN  /\ EntryEmitted'
                     <=> /\ ~IsActive(s)
                         /\ RatGE(AbsSpreadPct(t), CONFIG.SPREAD_ENTRY_THRESHOLD)
                         /\ (s \in DOMAIN lastSignalTime
                               => now - lastSignalTime[s] >= CONFIG.SIGNAL_COOLDOWN_MS)
                 /\ EntryEmitted'
                     => /\ s \in DOMAIN activeSignals'
                        /\ activeSignals'[s].direction = DirectionPct(t)
                        /\ activeSignals'[s].entrySpread = SpreadPct(t)
                        /\ activeSignals'[s].entryTime \in now..now'
                        /\ s \in DOMAIN lastSignalTime'
                        /\ lastSignalTime'[s] \in activeSignals'[s].entryTime..now' ]_vars

(* C4: on a tick with valid prices an Exit is emitted iff the instrument is *)
(* Active and |spread| <= exitThreshold, whatever the time since the Entry; *)
(* the instrument becomes Idle, the cooldown record keeps its value, and    *)
(* the Exit carries the direction and spread recorded at Entry and the      *)
(* current spread.                                                          *)
C4_ExitIff ==
    [][ ValidTick(lastTick')
          => LET t == lastTick'
                 s == t.symbol
             IN  /\ ExitEmitted'
                     <=> /\ IsActive(s)
                         /\ RatLE(AbsSpreadPct(t), CONFIG.SPREAD_EXIT_THRESHOLD)
                 /\ ExitEmitted'
                     => /\ s \notin DOMAIN activeSignals'
                        /\ lastSignalTime' = lastSignalTime
                        /\ emitted'[1].symbol = s
                        /\ emitted'[1].direction = activeSignals[s].direction
                        /\ emitted'[1].entrySpread = activeSignals[s].entrySpread
                        /\ emitted'[1].spread = SpreadPct(t) ]_vars

\* an Exit within the cooldown of its Entry (no clock tick since the Entry),
\* carrying the Entry's direction, which is not the direction of the exiting tick
C4_Witness ==
    /\ ValidTick(lastTick)
    /\ ExitEmitted
    /\ emitted[1].direction # DirectionPct(lastTick)
    /\ lastTick.symbol \in DOMAIN lastSignalTime
    /\ now - lastSignalTime[lastTick.symbol] < CONFIG.SIGNAL_COOLDOWN_MS

(* C5: while an instrument is Active, a tick with valid prices whose        *)
(* |spread| is greater than exitThreshold emits nothing and leaves the      *)
(* Active record and the cooldown record as they were.                      *)
C5_ActiveAboveExitNoChange ==
    [][ ( /\ ValidTick(lastTick')
          /\ IsActive(lastTick'.symbol)
          /\ ~RatLE(AbsSpreadPct(lastTick'), CONFIG.SPREAD_EXIT_THRESHOLD) )
          => /\ emitted' = <<>>
             /\ activeSignals' = activeSignals
             /\ lastSignalTime' = lastSignalTime ]_vars

\* Active, the cooldown elapsed, and the last tick was at or above the entry
\* threshold in the direction opposite to the Active record: nothing emitted
C5_Witness ==
    /\ ValidTick(lastTick)
    /\ IsActive(lastTick.symbol)
    /\ emitted = <<>>
    /\ RatGE(AbsSpreadPct(lastTick), CONFIG.SPREAD_ENTRY_THRESHOLD)
    /\ ~RatLE(AbsSpreadPct(lastTick), CONFIG.SPREAD_EXIT_THRESHOLD)
    /\ activeSignals[lastTick.symbol].direction # DirectionPct(lastTick)
    /\ now - lastSignalTime[lastTick.symbol] >= CONFIG.SIGNAL_COOLDOWN_MS

(* C6: every step emits at most one event, and for each instrument the      *)
(* events alternate Entry, Exit, Entry, ... from an Entry: it is Active     *)
(* exactly when it has one more Entry than Exits and Idle exactly when the  *)
(* counts are equal, with either order of the two thresholds.               *)
C6_EventsAlternate ==
    /\ Len(emitted) <= 1
    /\ \A s \in Symbols :
          /\ IsActive(s)  <=> nEntry[s] = nExit[s] + 1
          /\ ~IsActive(s) <=> nEntry[s] = nExit[s]

\* a second Entry after an Exit, with exitThreshold >= entryThreshold
C6_Witness ==
    /\ RatGE(CONFIG.SPREAD_EXIT_THRESHOLD, CONFIG.SPREAD_ENTRY_THRESHOLD)
    /\ \E s \in Symbols : nEntry[s] = 2 /\ nExit[s] = 1 /\ IsActive(s)
    /\ EntryEmitted

(* C7: two consecutive Entries of an instrument are at least cooldownMs     *)
(* apart (by their enteredAt), an Exit between them or not, and an Entry is *)
(* emitted only for an instrument that is Idle.                             *)
C7_EntriesCooldownApart ==
    [][ \A s \in Symbols :
          nEntry'[s] # nEntry[s]
            => /\ ~IsActive(s)
               /\ lastEntryAt[s] >= 0
                    => lastEntryAt'[s] - lastEntryAt[s] >= CONFIG.SIGNAL_COOLDOWN_MS ]_vars

\* the second Entry of an instrument, after an Exit
C7_Witness ==
    /\ EntryEmitted
    /\ \E s \in Symbols :
          /\ emitted[1].symbol = s
          /\ nEntry[s] = 2 /\ nExit[s] = 1
          /\ CONFIG.SIGNAL_COOLDOWN_MS > 0

----------------------------------------------------------------------------
(* Vocabulary of the connection properties *)

ShutdownStarted == sigintCount > 0

\* createWebSocketConnection calls, closures and reconnect timers of shard i
Attempts(i)      == Cardinality({w \in DOMAIN wsObjs : wsObjs[w].connectionIndex = i})
InitAttempts(i)  == Cardinality({w \in DOMAIN wsObjs :
                        wsObjs[w].connectionIndex = i /\ wsObjs[w].origin = "init"})
Closures(i)      == Cardinality({w \in DOMAIN wsObjs :
                        wsObjs[w].connectionIndex = i /\ wsObjs[w].readyState = "CLOSED"})
PendingTimers(i) == Cardinality({t \in DOMAIN reconnectTimers :
                        /\ reconnectTimers[t].connectionIndex = i
                        /\ reconnectTimers[t].status = "pending"})
ShardIndexes     == 0..(CONFIG.MAX_WS_CONNECTIONS - 1)

(* C8: once the SIGINT handler has run, no new connection is created for    *)
(* any shard: not by the startup loop, not by a reconnect timer.            *)
(* Violated: the handler clears only the timers pushed so far and stops     *)
(* nothing else; the close events of the sockets it closes push new timers, *)
(* which fire while the final notification is pending, and a startup loop   *)
(* still running goes on to its next connection.                            *)
C8_NoConnectionAfterShutdown ==
    [][ ShutdownStarted => Len(wsObjs') = Len(wsObjs) ]_vars

(* C9: absent shutdown (no SIGINT, no SIGTERM), every closure of a shard's  *)
(* connection is followed by exactly one new connection attempt for that    *)
(* shard and none for another: per shard the attempts are the initial one   *)
(* plus one per closure whose delay has elapsed, and no closure is left     *)
(* with its reconnect never to come.                                        *)
(* Violated: process.exit(1) on a failed initial attempt (see C10) ends the *)
(* process while the reconnect of a closed connection is still pending.     *)
C9_ClosureFollowedByReconnect ==
    (~ShutdownStarted /\ procState # "exit0")
      => /\ \A i \in ShardIndexes :
               Attempts(i) = InitAttempts(i) + Closures(i) - PendingTimers(i)
         /\ \A t \in DOMAIN reconnectTimers :
               reconnectTimers[t].status = "pending" => Running

(* C10: a connection attempt that failed (subscribe error or 30 s timeout)  *)
(* has not terminated the process.                                          *)
(* Violated: the rejection of an initial attempt propagates through         *)
(* initializeWebSockets and main to main().catch, which calls               *)
(* process.exit(1); the remaining shards are never opened.                  *)
C10_FailedAttemptNotFatal ==
    \A w \in DOMAIN wsObjs : wsObjs[w].promise = "rejected" => procState # "exit1"

\* the model has created every WebSocket its bound allows
AttemptsExhausted == Len(wsObjs) >= MaxWs

(* C11: once the SIGINT handler has run, the process eventually terminates, *)
(* also when the final notification never settles (behaviours that run into *)
(* the bound on created connections are left aside).                        *)
(* Violated: process.exit(0) is called only from the .finally of the        *)
(* tg.sendMessage promise; while that promise stays pending nothing else    *)
(* ends the process, which goes on streaming.                               *)
C11_SigintTerminates ==
    ShutdownStarted ~> (~Running \/ AttemptsExhausted)

(* C12: the transition of a tick does not depend on the notification: the   *)
(* step that sends an Entry or Exit has already applied the state and       *)
(* cooldown update while the delivery is only pending; a delivery that      *)
(* succeeds or fails changes no signal state, cooldown record or cache      *)
(* entry; and a tick arriving while deliveries are pending is decided as    *)
(* any other tick.                                                          *)
C12_TransitionIndependentOfDelivery ==
    [][ LET t == lastTick'
            s == t.symbol
        IN  /\ Len(tgPending') < Len(tgPending)
                  => /\ activeSignals' = activeSignals
                     /\ lastSignalTime' = lastSignalTime
                     /\ lastIndexPrice' = lastIndexPrice
            /\ EntryEmitted'
                  => /\ s \in DOMAIN activeSignals'
                     /\ s \in DOMAIN lastSignalTime' /\ lastSignalTime'[s] >= now
                     /\ tgPending' = Append(tgPending, [type |-> "ENTRY", symbol |-> s])
            /\ ExitEmitted'
                  => /\ s \notin DOMAIN activeSignals'
                     /\ tgPending' = Append(tgPending, [type |-> "EXIT", symbol |-> s])
            /\ (ValidTick(t) /\ tgPending # <<>> /\ s \in DOMAIN lastSignalTime)
                  => /\ ExitEmitted'
                        <=> /\ IsActive(s)
                            /\ RatLE(AbsSpreadPct(t), CONFIG.SPREAD_EXIT_THRESHOLD)
                     /\ EntryEmitted'
                        <=> /\ ~IsActive(s)
                            /\ RatGE(AbsSpreadPct(t), CONFIG.SPREAD_ENTRY_THRESHOLD)
                            /\ now - lastSignalTime[s] >= CONFIG.SIGNAL_COOLDOWN_MS ]_vars

\* the second Entry of an instrument, emitted while the deliveries of its
\* first Entry and of its Exit are both still pending
C12_Witness ==
    /\ EntryEmitted
    /\ Len(tgPending) = 3
    /\ tgPending[1].type = "ENTRY" /\ tgPending[2].type = "EXIT"
    /\ IsActive(emitted[1].symbol)

(* C13: a tick without a valid reference price is evaluated against the     *)
(* cached reference price of its instrument (the most recent valid one, see *)
(* C20): it emits an Entry or Exit exactly when the tick carrying its       *)
(* traded price and the cached reference would, and the event carries the   *)
(* cached reference with the spread and direction of that pair; without a   *)
(* cached reference the tick changes nothing and emits nothing.             *)
C13_FallbackToCachedReference ==
    [][ (IsTick(lastTick') /\ ~RefGiven(lastTick'))
          => LET t == lastTick'
                 s == t.symbol
             IN  IF s \in DOMAIN lastIndexPrice
                 THEN LET c    == lastIndexPrice[s]
                          pair == [t EXCEPT !.indexPrice = Num(c)]
                          lp   == t.lastPrice.v
                      IN  /\ EntryEmitted' <=> entryCond(pair)
                          /\ ExitEmitted' <=> exitCond(pair)
                          /\ (emitted' # <<>> /\ TradedValid(t))
                                => /\ emitted'[1].indexPrice = c
                                   /\ emitted'[1].spread = Rat((lp - c) * 100, c)
                          /\ (EntryEmitted' /\ TradedValid(t))
                                => /\ emitted'[1].direction = IF lp < c THEN "LONG" ELSE "SHORT"
                                   /\ activeSignals'[s].direction = emitted'[1].direction
                                   /\ activeSignals'[s].entrySpread = Rat((lp - c) * 100, c)
                 ELSE /\ emitted' = <<>>
                      /\ activeSignals' = activeSignals
                      /\ lastSignalTime' = lastSignalTime
                      /\ lastIndexPrice' = lastIndexPrice ]_vars

\* an Entry with a non-zero spread on a tick that carries no reference price,
\* computed against the cached reference
C13_Witness ==
    /\ IsTick(lastTick) /\ lastTick.indexPrice = Missing
    /\ TradedValid(lastTick)
    /\ EntryEmitted
    /\ emitted[1].indexPrice = lastIndexPrice[lastTick.symbol]
    /\ emitted[1].spread # RatZero

(* C14: for a tick with valid prices (traded > 0, reference > 0, given or   *)
(* cached) the direction computed at line 104 is Long iff traded <          *)
(* reference and Short otherwise, the spread computed by calcSpread is      *)
(* negative exactly when the direction is Long, an Entry carries that       *)
(* direction and spread, and every Active record has direction Long exactly *)
(* when its entrySpread is negative.                                        *)
C14_DirectionSignConsistent ==
    /\ ValidTick(lastTick)
          => LET lp  == parseFloat(lastTick.lastPrice)
                 ref == RefOf(lastTick)
             IN  /\ directionOf(lp, ref) = "LONG" <=> lastTick.lastPrice.v < ref
                 /\ directionOf(lp, ref) = "SHORT" <=> lastTick.lastPrice.v >= ref
                 /\ calcSpread(lp, ref)[1] < 0 <=> directionOf(lp, ref) = "LONG"
                 /\ EntryEmitted
                       => /\ emitted[1].direction = directionOf(lp, ref)
                          /\ emitted[1].spread = calcSpread(lp, ref)
    /\ \A s \in DOMAIN activeSignals :
          /\ activeSignals[s].direction \in {"LONG", "SHORT"}
          /\ activeSignals[s].direction = "LONG" <=> activeSignals[s].entrySpread[1] < 0

\* a tick with traded = reference (spread 0, Short) that closes a record
\* entered Long with a negative spread
C14_Witness ==
    /\ ValidTick(lastTick)
    /\ lastTick.lastPrice.v = RefOf(lastTick)
    /\ directionOf(lastTick.lastPrice.v, RefOf(lastTick)) = "SHORT"
    /\ ExitEmitted
    /\ emitted[1].direction = "LONG"
    /\ emitted[1].entrySpread[1] < 0

(* C15: once the startup loop has run to its end it has created exactly    *)
(* min(M, ceil(U / B)) shards, every shard but the last holds               *)
(* ceil(U / shardCount) instruments and the last one holds the remainder,   *)
(* which is not larger than that size.                                      *)
(* Violated: the shard size is ceil(U / MAX_WS_CONNECTIONS), not            *)
(* ceil(U / shardCount); with fewer shards than MAX_WS_CONNECTIONS the      *)
(* shards are too small and the last one does not hold the remainder.       *)
C15_ShardCountAndSizes ==
    initPc = "done"
      => LET n == Len(HandedShards)
             U == Len(symbols)
         IN  /\ n = Min(CONFIG.MAX_WS_CONNECTIONS, Ceil(U, CONFIG.BATCH_SIZE))
             /\ n > 0
                  => LET target == Ceil(U, n)
                     IN  /\ \A k \in 1..(n - 1) : Len(HandedShards[k]) = target
                         /\ Len(HandedShards[n]) = U - (n - 1) * target
                         /\ Len(HandedShards[n]) <= target

(* C16: on every connection the subscription batches are sent one at a     *)
(* time in shard order, a further batch only by the step that follows the   *)
(* inter-batch delay; every batch holds between 1 and BATCH_SIZE            *)
(* instruments, what has been sent is always a prefix of the shard, and     *)
(* when subscribeToSymbols has returned the batches concatenated are        *)
(* exactly the shard.                                                       *)
C16_BatchesCoverShardInOrder ==
    /\ [](\A w \in DOMAIN wsObjs :
            LET o == wsObjs[w]
                c == Concat(o.sent)
            IN  /\ \A k \in DOMAIN o.sent :
                      Len(o.sent[k]) >= 1 /\ Len(o.sent[k]) <= CONFIG.BATCH_SIZE
                /\ Len(c) <= Len(o.symbols) /\ c = SubSeq(o.symbols, 1, Len(c))
                /\ o.subPc = "done" => c = o.symbols
                /\ o.promise = "resolved" => o.subPc = "done")
    /\ [][ \A w \in DOMAIN wsObjs :
              wsObjs'[w].sent # wsObjs[w].sent
                => /\ Len(wsObjs'[w].sent) = Len(wsObjs[w].sent) + 1
                   /\ SubSeq(wsObjs'[w].sent, 1, Len(wsObjs[w].sent)) = wsObjs[w].sent
                   /\ wsObjs[w].sent # <<>> => wsObjs[w].subPc = "waiting" ]_vars

\* a connection whose shard went out in two batches, the last one smaller
\* than BATCH_SIZE
C16_Witness ==
    \E w \in DOMAIN wsObjs :
        /\ wsObjs[w].subPc = "done"
        /\ Len(wsObjs[w].sent) = 2
        /\ Len(wsObjs[w].sent[2]) < CONFIG.BATCH_SIZE
        /\ Len(wsObjs[w].sent[1]) = CONFIG.BATCH_SIZE

(* C17: an instrument without cooldown record satisfies the cooldown        *)
(* condition at every clock value: a tick with valid prices and             *)
(* |spread| >= entryThreshold on an Idle instrument that has no cooldown    *)
(* record emits an Entry.                                                   *)
(* Violated: line 107 reads a missing record as the timestamp 0, so line    *)
(* 108 requires Date.now() >= SIGNAL_COOLDOWN_MS and the Entry is refused   *)
(* while the clock value is smaller than the cooldown.                      *)
C17_NoRecordNoCooldown ==
    [][ ( /\ ValidTick(lastTick')
          /\ ~IsActive(lastTick'.symbol)
          /\ lastTick'.symbol \notin DOMAIN lastSignalTime
          /\ RatGE(AbsSpreadPct(lastTick'), CONFIG.SPREAD_ENTRY_THRESHOLD) )
          => EntryEmitted' ]_vars

\* the initial attempts that are connecting or subscribing
InitInProgress ==
    {w \in DOMAIN wsObjs :
        /\ wsObjs[w].origin = "init"
        /\ wsObjs[w].readyState = "CONNECTING" \/ wsObjs[w].subPc = "waiting"}

InPool(w) == \E p \in DOMAIN wsConnections : wsConnections[p] = w

(* C18: the initial connections are initiated in shard-index order, at most *)
(* one initial attempt is connecting or subscribing at any time, a further  *)
(* initial attempt is initiated only from the stagger wait that follows the *)
(* previous one having subscribed and resolved, and a connection stored in  *)
(* the pool has had all batches of its shard sent.                          *)
C18_StaggeredStartup ==
    /\ [](/\ \A k \in DOMAIN SelectSeq(wsObjs, IsInitWs) :
                 SelectSeq(wsObjs, IsInitWs)[k].connectionIndex = k - 1
          /\ Cardinality(InitInProgress) <= 1
          /\ \A w \in DOMAIN wsObjs :
                 InPool(w) => /\ wsObjs[w].subPc = "done"
                              /\ Concat(wsObjs[w].sent) = wsObjs[w].symbols)
    /\ [][ Len(HandedShards') > Len(HandedShards)
              => /\ InitInProgress = {}
                 /\ Len(HandedShards) > 0 => initPc = "stagger"
                 /\ \A w \in DOMAIN wsObjs :
                        wsObjs[w].origin = "init"
                          => /\ wsObjs[w].promise = "resolved"
                             /\ Concat(wsObjs[w].sent) = wsObjs[w].symbols ]_vars

\* startup finished with two shards, the first one subscribed in two batches
C18_Witness ==
    /\ initPc = "done"
    /\ Len(HandedShards) = 2
    /\ \E w \in DOMAIN wsObjs :
          /\ wsObjs[w].origin = "init" /\ wsObjs[w].connectionIndex = 0
          /\ Len(wsObjs[w].sent) = 2
          /\ InPool(w)

\* a parseable frame with a ticker topic and a data payload
WellFormedTicker(m) == m.json = "object" /\ m.topic = "tickers" /\ m.hasData

(* C19: a frame that is not a well-formed ticker update (unparseable text,  *)
(* JSON without topic or with a non-string topic, another topic, a ticker   *)
(* topic without data) leaves the signal states, the cooldown records and   *)
(* the price cache unchanged, emits nothing, starts no delivery, and leaves *)
(* every connection and the process as they were.                           *)
C19_NonTickerFramesDropped ==
    [][ (lastFrame' # NoFrame /\ ~WellFormedTicker(lastFrame'))
          => /\ activeSignals' = activeSignals
             /\ lastSignalTime' = lastSignalTime
             /\ lastIndexPrice' = lastIndexPrice
             /\ emitted' = <<>>
             /\ tgPending' = tgPending
             /\ wsObjs' = wsObjs /\ wsConnections' = wsConnections
             /\ reconnectTimers' = reconnectTimers
             /\ procState' = procState ]_vars

\* a frame of another topic whose payload would have entered (Idle, cooldown
\* satisfied, spread above the entry threshold) was dropped, the connection
\* still open
C19_Witness ==
    /\ lastFrame.topic = "other" /\ lastFrame.hasData
    /\ RatGE(RatAbs(calcSpread(parseFloat(lastFrame.data.lastPrice),
                                parseFloat(lastFrame.data.indexPrice))),
             CONFIG.SPREAD_ENTRY_THRESHOLD)
    /\ ~IsActive(lastFrame.data.symbol)
    /\ now >= CONFIG.SIGNAL_COOLDOWN_MS
    /\ lastFrame.data.symbol \notin DOMAIN lastIndexPrice
    /\ emitted = <<>>
    /\ Running /\ Streaming

(* C20: a tick changes the price cache iff it carries a valid positive      *)
(* reference price, whatever its traded price is: the entry of its          *)
(* instrument becomes that price and no other entry changes; a tick without *)
(* one, and every step that is no tick, leaves the cache as it was.  Hence  *)
(* every cached price is positive, and after a tick with a valid reference  *)
(* the entry of its instrument is that reference.                           *)
C20_CacheHoldsLastValidReference ==
    /\ [](/\ \A s \in DOMAIN lastIndexPrice : lastIndexPrice[s] > 0
          /\ (IsTick(lastTick) /\ RefGiven(lastTick))
                => /\ lastTick.symbol \in DOMAIN lastIndexPrice
                   /\ lastIndexPrice[lastTick.symbol] = lastTick.indexPrice.v)
    /\ [][ IF IsTick(lastTick') /\ RefGiven(lastTick')
           THEN /\ DOMAIN lastIndexPrice' = DOMAIN lastIndexPrice \cup {lastTick'.symbol}
                /\ lastIndexPrice'[lastTick'.symbol] = lastTick'.indexPrice.v
                /\ \A s \in DOMAIN lastIndexPrice :
                       s # lastTick'.symbol => lastIndexPrice'[s] = lastIndexPrice[s]
           ELSE lastIndexPrice' = lastIndexPrice ]_vars

\* a tick whose traded price is not a number replaced the cached reference
\* of an Active instrument by its own valid reference
C20_Witness ==
    /\ IsTick(lastTick)
    /\ lastTick.lastPrice = Text
    /\ lastTick.indexPrice = Num(1010)
    /\ lastIndexPrice[lastTick.symbol] = 1010
    /\ IsActive(lastTick.symbol)
    /\ activeSignals[lastTick.symbol].direction = "SHORT"

\* the entry of instrument s in a map (<<>> when absent)
EntryOf(m, s) == IF s \in DOMAIN m THEN <<m[s]>> ELSE <<>>

(* C21: a tick of instrument s, arriving on any open connection and         *)
(* interleaved in any order with the ticks of the other instrument, leaves  *)
(* the signal state, the cooldown record, the cache entry and the event     *)
(* counts of every other instrument unchanged, emits events of s only, and  *)
(* is decided from the tick, the clock and the entries of s alone.          *)
C21_OtherInstrumentsUntouched ==
    [][ IsTick(lastTick')
          => LET t == lastTick'
                 s == t.symbol
             IN  /\ \A o \in Symbols \ {s} :
                       /\ EntryOf(activeSignals', o) = EntryOf(activeSignals, o)
                       /\ EntryOf(lastSignalTime', o) = EntryOf(lastSignalTime, o)
                       /\ EntryOf(lastIndexPrice', o) = EntryOf(lastIndexPrice, o)
                       /\ nEntry'[o] = nEntry[o] /\ nExit'[o] = nExit[o]
                 /\ \A k \in DOMAIN emitted' : emitted'[k].symbol = s
                 /\ ValidTick(t)
                       => /\ EntryEmitted'
                             <=> /\ ~IsActive(s)
                                 /\ RatGE(AbsSpreadPct(t), CONFIG.SPREAD_ENTRY_THRESHOLD)
                                 /\ now - (IF s \in DOMAIN lastSignalTime
                                           THEN lastSignalTime[s] ELSE 0)
                                      >= CONFIG.SIGNAL_COOLDOWN_MS
                          /\ ExitEmitted'
                             <=> /\ IsActive(s)
                                 /\ RatLE(AbsSpreadPct(t), CONFIG.SPREAD_EXIT_THRESHOLD) ]_vars

\* an Exit of one instrument while the other one is Active, entered at
\* another time, with its own cooldown record and cache entry
C21_Witness ==
    /\ ExitEmitted
    /\ lastTick.symbol = "ETHUSDT"
    /\ IsActive("BTCUSDT")
    /\ "BTCUSDT" \in DOMAIN lastIndexPrice
    /\ lastSignalTime["BTCUSDT"] # lastSignalTime["ETHUSDT"]
    /\ nEntry["BTCUSDT"] = 2

\* the connections of shard i that are not closed
Live(i) == {w \in DOMAIN wsObjs :
               wsObjs[w].connectionIndex = i /\ wsObjs[w].readyState # "CLOSED"}

SymbolsOf(w) == {wsObjs[w].symbols[k] : k \in DOMAIN wsObjs[w].symbols}

(* C22: at any time each shard has at most one connection that is not       *)
(* closed, a connection for a shard is created only when every earlier      *)
(* connection of that shard has closed, and no instrument belongs to two    *)
(* connections that are not closed.                                         *)
C22_OneLiveConnectionPerShard ==
    /\ [](/\ \A i \in ShardIndexes : Cardinality(Live(i)) <= 1
          /\ \A w1, w2 \in DOMAIN wsObjs :
                 ( /\ w1 # w2
                   /\ wsObjs[w1].readyState # "CLOSED"
                   /\ wsObjs[w2].readyState # "CLOSED" )
                   => SymbolsOf(w1) \cap SymbolsOf(w2) = {})
    /\ [][ Len(wsObjs') > Len(wsObjs)
              => Live(wsObjs'[Len(wsObjs')].connectionIndex) = {} ]_vars

\* a reconnected connection is open after the connection it replaces closed
\* and after its own creation promise was rejected by the 30 s timeout
C22_Witness ==
    \E w \in DOMAIN wsObjs :
        /\ wsObjs[w].origin = "reconnect"
        /\ wsObjs[w].readyState = "OPEN"
        /\ wsObjs[w].promise = "rejected"
        /\ \E w0 \in DOMAIN wsObjs :
              /\ wsObjs[w0].connectionIndex = wsObjs[w].connectionIndex
              /\ wsObjs[w0].readyState = "CLOSED"

\* state.wsConnections[i] === the WebSocket w
InSlot(w, i) == i + 1 \in DOMAIN wsConnections /\ wsConnections[i + 1] = w

(* C23: while the process runs, every connection that is open and whose     *)
(* creation promise has settled is the one stored in                        *)
(* state.wsConnections[connectionIndex], so the loop of the SIGINT handler  *)
(* reaches it.                                                              *)
(* Violated: a reconnect attempt rejected by the 30 s timeout is only       *)
(* logged; its socket stays alive, opens later and is never stored, so the  *)
(* SIGINT handler does not close it.                                        *)
C23_OpenConnectionsAreInPool ==
    Running
      => \A w \in DOMAIN wsObjs :
            (wsObjs[w].readyState = "OPEN" /\ wsObjs[w].promise # "pending")
              => InSlot(w, wsObjs[w].connectionIndex)

============================================================================
